---- MODULE Spec2Model ----
(***************************************************************************)
(* FinTrack: the derived-metrics engine (App.tsx, stats) and the insight   *)
(* request pipeline (services/geminiService.ts getFinancialInsights and    *)
(* App.tsx fetchInsights), together with the App-level reducers and the    *)
(* effects that run after each state change.                               *)
(*                                                                         *)
(* Strings are sequences of tokens; the empty string is <<>>.  A token     *)
(* stands for a fixed phrase, so String.includes(phrase) is membership of  *)
(* the phrase's token and template literals are concatenation.             *)
(***************************************************************************)
EXTENDS Integers, Sequences, FiniteSets, TLC

\* requests holds the fetchInsights invocations that are suspended at an
\* await, oldest first; last is the invocation that ran to its end in the
\* latest step (Idle when none did); issued and ops count the invocations
\* and the mutations so far.  cards holds the local state of the
\* FinancialCard of each category; click is the latest event on a card.
VARIABLES phase, activeTab, data, stats, storage, overviewInsight,
          predictionInsight, isLoadingInsight, requests, issued, last,
          apiKey, aistudio, ops, cards, click

vars == <<phase, activeTab, data, stats, storage, overviewInsight,
          predictionInsight, isLoadingInsight, requests, issued, last,
          apiKey, aistudio, ops, cards, click>>

\* ------------------------------------------------------------------ bounds
MaxRequests == 2
MaxOps == 1
\* Width of the significand of the modelled numbers.
SignificandBits == 20

\* ------------------------------------------------------------------- types
UNPAID == "Unpaid"
PAID == "Paid"
PENDING == "Pending"

Sections == {"savingsAccounts", "accountBalances", "receivables", "loans",
             "subscriptions", "savingsContribution", "utilities", "plans",
             "mandatories", "otherExpenses"}

Tabs == {"overview", "assets", "obligations", "prediction"}

InsightViews == {"overview", "prediction"}

Plain(id, label, amount) == [id |-> id, label |-> label, amount |-> amount]

Entry(id, label, amount, status) ==
  [id |-> id, label |-> label, amount |-> amount, status |-> status]

DEFAULT_DATA ==
  [savingsAccounts |-> << Plain("3", "BPI Savings", 25000),
                          Plain("4", "Digital Bank (Maya)", 12000) >>,
   accountBalances |-> << Plain("5", "BDO Checkings", 8500) >>,
   receivables |-> << Entry("6", "Client A Project", 5000, PENDING) >>,
   loans |-> << Entry("7", "Credit Card (Main)", 12000, UNPAID) >>,
   subscriptions |-> << Entry("8", "Netflix", 549, UNPAID),
                        Entry("9", "Spotify", 149, UNPAID) >>,
   savingsContribution |-> << Entry("10", "Emergency Fund", 2000, UNPAID) >>,
   utilities |-> << Entry("11", "Meralco", 3500, UNPAID),
                    Entry("12", "Maynilad", 800, UNPAID) >>,
   plans |-> << Entry("13", "Insurance Plan", 3200, UNPAID) >>,
   mandatories |-> << Entry("14", "SSS/PhilHealth", 1500, UNPAID) >>,
   otherExpenses |-> << Entry("15", "Groceries", 6000, UNPAID),
                        Entry("16", "Transport", 2000, UNPAID) >>]

\* ---------------------------------------------------------------- numbers
\* Amounts and totals are JavaScript numbers: binary floating point whose
\* results are rounded to the nearest representable value, ties to even.
\* The model keeps the integer-valued numbers and a significand of
\* SignificandBits bits (the program's numbers have 53), so an integer is
\* exact up to 2^SignificandBits and loses its low bits beyond that.
Abs(x) == IF x < 0 THEN 0 - x ELSE x

\* Width of the low part that a magnitude of more than SignificandBits bits
\* loses.
LostBits(mag) ==
  CHOOSE s \in 0..(30 - SignificandBits) :
    /\ mag \div 2^s < 2^SignificandBits
    /\ s > 0 => mag \div 2^(s - 1) >= 2^SignificandBits

RoundToNearestEven(x) ==
  IF Abs(x) < 2^SignificandBits THEN x
  ELSE LET s == LostBits(Abs(x))
           q == Abs(x) \div 2^s
           r == Abs(x) % 2^s
           half == 2^(s - 1)
           up == r > half \/ (r = half /\ q % 2 = 1)
           m == (IF up THEN q + 1 ELSE q) * 2^s
       IN IF x < 0 THEN 0 - m ELSE m

\* The operators + and - and * of two numbers.
NumberAdd(a, b) == RoundToNearestEven(a + b)
NumberSub(a, b) == RoundToNearestEven(a - b)
NumberMul(a, b) == RoundToNearestEven(a * b)

\* --------------------------------------------------------- metrics engine
RECURSIVE Reduce(_, _, _)
Reduce(entries, k, acc) ==
  IF k > Len(entries) THEN acc
  ELSE Reduce(entries, k + 1, NumberAdd(acc, entries[k].amount))

calculateTotal(entries) == Reduce(entries, 1, 0)

\* Variant: only the entries marked Unpaid are kept.
IsUnpaidOnly(e) == "status" \in DOMAIN e /\ e.status = UNPAID

\* Variant: the filter keeps the settled entries instead.
IsPaid(e) == "status" \in DOMAIN e /\ e.status = PAID

IsNotPaid(e) == ~("status" \in DOMAIN e /\ e.status = PAID)

RECURSIVE FilterSeq(_, _)
FilterSeq(entries, k) ==
  IF k > Len(entries) THEN <<>>
  ELSE (IF IsNotPaid(entries[k]) THEN <<entries[k]>> ELSE <<>>)
       \o FilterSeq(entries, k + 1)

\* The categories that stats reads as expenses, and all it reads.
ExpenseSections == {"loans", "subscriptions", "savingsContribution",
                    "utilities", "plans", "mandatories", "otherExpenses"}

StatsSections == ExpenseSections \cup {"savingsAccounts", "accountBalances"}

\* Variant: the savings contributions are left out of the expenses.
allExpensesWithoutContribution(d) ==
  d.loans \o d.subscriptions \o d.utilities
  \o d.plans \o d.mandatories \o d.otherExpenses

allExpensesOf(d) ==
  d.loans \o d.subscriptions \o d.savingsContribution \o d.utilities
  \o d.plans \o d.mandatories \o d.otherExpenses

\* Variant: the contributions are not added to the savings.
ComputeStatsSavingsOnly(d) ==
  LET savings == calculateTotal(d.savingsAccounts)
      contributions == calculateTotal(d.savingsContribution)
      usable == calculateTotal(d.accountBalances)
      allExpenses == allExpensesOf(d)
      totalExpenses == calculateTotal(allExpenses)
      unpaidExpenses == calculateTotal(FilterSeq(allExpenses, 1))
  IN [savings |-> savings,
      contributions |-> contributions,
      totalSavings |-> savings,
      usable |-> usable,
      totalExpenses |-> totalExpenses,
      unpaidExpenses |-> unpaidExpenses,
      remainingBalance |-> NumberSub(usable, totalExpenses)]

\* Variant: the receivables are filtered into the unpaid total as well.
ComputeStatsUnpaidReceivables(d) ==
  LET savings == calculateTotal(d.savingsAccounts)
      contributions == calculateTotal(d.savingsContribution)
      usable == calculateTotal(d.accountBalances)
      allExpenses == allExpensesOf(d)
      totalExpenses == calculateTotal(allExpenses)
      unpaidExpenses ==
        calculateTotal(FilterSeq(d.receivables \o allExpenses, 1))
  IN [savings |-> savings,
      contributions |-> contributions,
      totalSavings |-> NumberAdd(savings, contributions),
      usable |-> usable,
      totalExpenses |-> totalExpenses,
      unpaidExpenses |-> unpaidExpenses,
      remainingBalance |-> NumberSub(usable, totalExpenses)]

ComputeStats(d) ==
  LET savings == calculateTotal(d.savingsAccounts)
      contributions == calculateTotal(d.savingsContribution)
      usable == calculateTotal(d.accountBalances)
      allExpenses == allExpensesOf(d)
      totalExpenses == calculateTotal(allExpenses)
      unpaidExpenses == calculateTotal(FilterSeq(allExpenses, 1))
  IN [savings |-> savings,
      contributions |-> contributions,
      totalSavings |-> NumberAdd(savings, contributions),
      usable |-> usable,
      totalExpenses |-> totalExpenses,
      unpaidExpenses |-> unpaidExpenses,
      remainingBalance |-> NumberSub(usable, totalExpenses)]

\* ------------------------------------------------------- derived displays
\* Quotients are kept as exact fractions in lowest terms with a positive
\* denominator: the division and the scaling by 100 are not rounded.
RECURSIVE GCD(_, _)
GCD(a, b) == IF b = 0 THEN a ELSE GCD(b, a % b)

Ratio(n, d) ==
  LET g == GCD(Abs(n), Abs(d))
      sign == IF d < 0 THEN 0 - 1 ELSE 1
  IN [num |-> sign * (n \div g), den |-> sign * (d \div g)]

FromInt(k) == [num |-> k, den |-> 1]

\* r1 <= r2, for an integer on one side.
AtMost(r1, r2) == r1.num * r2.den <= r2.num * r1.den

MathMin(r1, r2) == IF AtMost(r1, r2) THEN r1 ELSE r2
MathMax(r1, r2) == IF AtMost(r1, r2) THEN r2 ELSE r1

\* Math.round: the nearest integer, halves upwards.
MathRound(r) == (2 * r.num + r.den) \div (2 * r.den)

\* stats.totalExpenses || 1
Divisor(s) == IF s.totalExpenses = 0 THEN 1 ELSE s.totalExpenses

\* Variant: the ratio is shown without its cap.
safetyRatioUncapped(s) ==
  MathRound(Ratio(s.usable * 100, Divisor(s)))

\* The headline figure of the overview tab (line 326).
safetyRatio(s) ==
  LET rounded == MathRound(Ratio(s.usable * 100, Divisor(s)))
  IN IF 999 <= rounded THEN 999 ELSE rounded

\* Variant: the safety figure is capped at 100 but not floored at 0.
predictionDataUnfloored(s) ==
  [i \in 1..3 |->
     LET balance == NumberAdd(s.usable, NumberMul(s.remainingBalance, i))
     IN [index |-> i,
         balance |-> balance,
         safety |-> MathMin(FromInt(100), Ratio(balance * 100, Divisor(s)))]]

\* The three projected months (lines 211-222); the month's name is left out.
predictionData(s) ==
  [i \in 1..3 |->
     LET balance == NumberAdd(s.usable, NumberMul(s.remainingBalance, i))
     IN [index |-> i,
         balance |-> balance,
         safety |-> MathMax(FromInt(0),
                            MathMin(FromInt(100),
                                    Ratio(balance * 100, Divisor(s))))]]

\* -------------------------------------------------------- string helpers
NotFoundPhrase == "Requested entity was not found"
PausedPrefix == "AI Analysis paused: "
UnknownConnection == "Unknown connection error"
API_KEY_MISSING == <<"API_KEY_MISSING">>
MODEL_NOT_FOUND == <<"MODEL_NOT_FOUND">>
NoContentText ==
  <<"The strategist analyzed your data but didn't provide a written response. Try adjusting your entries.">>
ConnectKeyText == <<"Please connect your Gemini API Key to use AI features.">>
FailedToLoadText == <<"AI Analysis failed to load.">>

Includes(s, tok) == \E k \in 1..Len(s) : s[k] = tok

\* ------------------------------------------------- environment (inputs)
\* window.aistudio: absent, or present with both of its functions.
HookShapes == {"none", "full"}

\* Values generateContent can reject with: no reason at all, or an Error
\* with a message.
NoReason == [kind |-> "undef", message |-> <<>>]
Err(m) == [kind |-> "error", message |-> m]
ErrorMessages == {<<"timeout">>, <<"404 ", NotFoundPhrase>>}
ErrorValues == {NoReason} \cup {Err(m) : m \in ErrorMessages}
\* Rejections of the hosting shell's hooks: Error objects.
HookErrors == {Err(<<>>), Err(<<"cancelled">>)}

\* Responses of generateContent: the text field absent, empty or present.
Resp(has, t) == [hasText |-> has, text |-> t]
Responses == {Resp(FALSE, <<>>), Resp(TRUE, <<>>), Resp(TRUE, <<"plan A">>)}

\* ------------------------------------------- getFinancialInsights (pure)
\* Outcome of an async call: it either returns value or throws value.
Returns(v) == [throws |-> FALSE, value |-> v]
Throws(e) == [throws |-> TRUE, value |-> e]

\* Variant: the credential is never checked.
CredentialCheckSkipped(key) == TRUE

CredentialCheck(key) == key

\* Variant: the response text is returned whatever it holds.
OnResponseVerbatim(resp) == Returns(resp.text)

OnResponse(resp) ==
  IF ~resp.hasText \/ resp.text = <<>> THEN Returns(NoContentText)
  ELSE Returns(resp.text)

\* Variant: every failure is swallowed into the fallback string.
OnFailureSwallowsAll(error) ==
  Returns(<<PausedPrefix, UnknownConnection>>)

OnFailure(error) ==
  LET errorMessage == IF error.kind = "undef" THEN <<>> ELSE error.message
  IN IF Includes(errorMessage, NotFoundPhrase) THEN Throws(Err(MODEL_NOT_FOUND))
     ELSE Returns(<<PausedPrefix>> \o
                  (IF errorMessage # <<>> THEN errorMessage
                   ELSE <<UnknownConnection>>))

\* --------------------------------------------------------- request records
NoError == [kind |-> "none", message |-> <<>>]
NoResponse == [hasText |-> FALSE, text |-> <<"(no response)">>]

\* superseded: a younger invocation for the same view has already written
\* the display string.  catchPrompt: the catch block has called openSelectKey.
NewRequest(view) ==
  [view |-> view, pc |-> "start", superseded |-> FALSE, entered |-> "no", calls |-> 0,
   response |-> NoResponse, endpointError |-> NoError, raised |-> <<>>, returned |-> <<>>,
   catchPrompt |-> FALSE, written |-> FALSE, wrote |-> <<>>, escaped |-> FALSE]

Idle == [NewRequest("overview") EXCEPT !.pc = "none"]

\* fetchInsights, lines 160-161 / 173-177: write the view's display string,
\* then the finally block.
Display(r, text) ==
  [r EXCEPT !.pc = "done", !.written = TRUE, !.wrote = text]

\* An exception leaves fetchInsights: only the finally block runs.
Escape(r) == [r EXCEPT !.pc = "done", !.escaped = TRUE]

\* fetchInsights, catch block (lines 162-171) up to its await.
CatchBlock(r, e) ==
  IF e.message = API_KEY_MISSING \/ e.message = MODEL_NOT_FOUND
  THEN IF aistudio = "full"
       THEN [r EXCEPT !.pc = "select2", !.catchPrompt = TRUE]
       ELSE Display(r, ConnectKeyText)
  ELSE Display(r, IF e.message # <<>> THEN e.message ELSE FailedToLoadText)

\* getFinancialInsights up to its await (lines 9-14, 44), called at line 159.
Invoke(r, key) ==
  IF ~CredentialCheck(key)
  THEN CatchBlock([r EXCEPT !.entered = "noKey", !.raised = API_KEY_MISSING],
                  Err(API_KEY_MISSING))
  ELSE [r EXCEPT !.entered = "withKey", !.pc = "call", !.calls = @ + 1]

\* fetchInsights from its first line up to its first await (lines 153-159).
Begin(r, key) ==
  IF aistudio # "none" THEN [r EXCEPT !.pc = "hasKey"]
  ELSE Invoke(r, key)

\* ----------------------------------------------------------- persistence
\* localStorage 'fintrack-data' holds nothing, a text that is no JSON, or a
\* JSON text.  A JSON text is kept as its tokens without the punctuation:
\* an object is the sequence of its members, names and values alternating
\* in the order they are written, and an array is the sequence of its
\* items.  The texts met here are objects of arrays of flat objects.

\* The keys of a DashboardData in the order the object holds them.
SectionOrder ==
  <<"savingsAccounts", "accountBalances", "receivables", "loans",
    "subscriptions", "savingsContribution", "utilities", "plans",
    "mandatories", "otherExpenses">>

\* JSON.stringify of an entry: its own properties in order; a status that
\* is not there writes nothing.
StringifyEntry(e) ==
  IF "status" \in DOMAIN e
  THEN <<"id", e.id, "label", e.label, "amount", e.amount,
         "status", e.status>>
  ELSE <<"id", e.id, "label", e.label, "amount", e.amount>>

StringifyList(entries) ==
  [j \in 1..Len(entries) |-> StringifyEntry(entries[j])]

\* Variant: the status is not written.
StringifyWithoutStatus(d) ==
  [kind |-> "json",
   value |-> [k \in 1..(2 * Len(SectionOrder)) |->
                IF k % 2 = 1 THEN SectionOrder[(k + 1) \div 2]
                ELSE [j \in 1..Len(d[SectionOrder[k \div 2]]) |->
                        SubSeq(StringifyEntry(d[SectionOrder[k \div 2]][j]),
                               1, 6)]]]

Stringify(d) ==
  [kind |-> "json",
   value |-> [k \in 1..(2 * Len(SectionOrder)) |->
                IF k % 2 = 1 THEN SectionOrder[(k + 1) \div 2]
                ELSE StringifyList(d[SectionOrder[k \div 2]])]]

\* The names of an object's members, and the value a name denotes: that
\* of the last member of that name.
MemberNames(text) == {text[2 * k - 1] : k \in 1..(Len(text) \div 2)}

LastMember(text, name) ==
  text[2 * (CHOOSE k \in 1..(Len(text) \div 2) :
              /\ text[2 * k - 1] = name
              /\ \A j \in (k + 1)..(Len(text) \div 2) :
                   text[2 * j - 1] # name)]

\* JSON.parse of a flat object, of an array of them, and of an object of
\* such arrays.
ParseEntry(text) ==
  [name \in MemberNames(text) |-> LastMember(text, name)]

ParseList(items) == [j \in 1..Len(items) |-> ParseEntry(items[j])]

Parse(text) ==
  [name \in MemberNames(text) |-> ParseList(LastMember(text, name))]

\* getItem returns null (or the empty string).
Absent == [kind |-> "absent", value |-> <<>>]
\* JSON.parse throws.
Corrupt == [kind |-> "corrupt", value |-> <<>>]

LoadData(saved) ==
  IF saved.kind = "json" THEN Parse(saved.value) ELSE DEFAULT_DATA

EmptyData == [s \in Sections |-> <<>>]

ScenarioA ==
  [EmptyData EXCEPT !.accountBalances = << Plain("5", "BDO Checkings", 8500) >>,
                    !.loans = << Entry("7", "Credit Card (Main)", 12000, UNPAID) >>]

\* Values the persisted key can hold at startup: nothing, unparsable text,
\* or what an earlier session wrote.
SavedValues == {Absent, Corrupt}

\* ---------------------------------------------------------------- reducers
RECURSIVE FilterOut(_, _)
FilterOut(entries, id) ==
  IF entries = <<>> THEN <<>>
  ELSE (IF Head(entries).id # id THEN <<Head(entries)>> ELSE <<>>)
       \o FilterOut(Tail(entries), id)

WithStatus(e, status) ==
  [f \in DOMAIN e \cup {"status"} |-> IF f = "status" THEN status ELSE e[f]]

addEntry(d, section, id, label, amount) ==
  [d EXCEPT ![section] = Append(@, Entry(id, label, amount, UNPAID))]

\* Variant: the id is filtered out of every category.
deleteEntryEverywhere(d, section, id) ==
  [t \in DOMAIN d |-> FilterOut(d[t], id)]

deleteEntry(d, section, id) ==
  [d EXCEPT ![section] = FilterOut(@, id)]

updateStatus(d, section, id, status) ==
  [d EXCEPT ![section] =
     [k \in 1..Len(@) |-> IF @[k].id = id THEN WithStatus(@[k], status)
                          ELSE @[k]]]

\* Variant: the entry is rebuilt from its id and the new values.
updateEntryRebuilt(d, id, label, amount) ==
  [section \in DOMAIN d |->
     [k \in 1..Len(d[section]) |->
        IF d[section][k].id = id THEN Plain(id, label, amount)
        ELSE d[section][k]]]

updateEntry(d, id, label, amount) ==
  [section \in DOMAIN d |->
     [k \in 1..Len(d[section]) |->
        IF d[section][k].id = id
        THEN [d[section][k] EXCEPT !.label = label, !.amount = amount]
        ELSE d[section][k]]]

\* FinancialCard.handleStatusClick: the status a confirmed click asks for.
\* Variant: a settled entry is put back to Pending.
NextStatusReopens(e) ==
  IF "status" \in DOMAIN e /\ e.status = PAID THEN PENDING ELSE PAID

NextStatus(e) ==
  IF "status" \in DOMAIN e /\ e.status = PAID THEN UNPAID ELSE PAID

\* Cards rendered on each tab, and the cards that show a status control.
CardSections(tab) ==
  IF tab = "assets" THEN {"accountBalances", "savingsAccounts", "receivables"}
  ELSE IF tab = "obligations"
       THEN {"loans", "mandatories", "utilities", "subscriptions"}
       ELSE {}

StatusSections == {"receivables", "loans", "mandatories", "utilities",
                   "subscriptions"}

\* Inputs of the add and edit forms that pass the cards' validation.
Labels == {"Test"}
Amounts == {100}
\* generateId draws from Math.random: nothing excludes an id already in use.
IdPool == {"n1"}
\* The card and row the modelled user works on while requests run.
EditedSections == {"utilities"}
Rows == {1}

\* ------------------------------------------------------- FinancialCard
\* null, for the ids a card remembers.
NULL == "(null)"

\* The useState initial values of a card (part_001, lines 27-36).  The two
\* amount fields hold the text of a number input, character by character.
InitialCard ==
  [newLabel |-> "", newAmount |-> <<>>,
   editingId |-> NULL, editLabel |-> "", editAmount |-> <<>>,
   justSavedId |-> NULL, confirmingDeleteId |-> NULL,
   confirmingStatusId |-> NULL]

\* Every card as it is mounted.
NoCards == [s \in Sections |-> InitialCard]

\* No event yet on the cards that are mounted.
NoClick == [on |-> "none", section |-> "", id |-> NULL]

\* ------------------------------------------------------------------ state
Init ==
  /\ phase = "constructed"
  /\ activeTab = "overview"
  /\ \E saved \in SavedValues :
       /\ storage = saved
       /\ data = LoadData(saved)
  /\ stats = ComputeStats(data)
  /\ overviewInsight = <<>>
  /\ predictionInsight = <<>>
  /\ isLoadingInsight = FALSE
  /\ requests = <<>>
  /\ issued = 0
  /\ last = Idle
  /\ apiKey \in BOOLEAN
  /\ aistudio \in HookShapes
  /\ ops = 0
  /\ cards = NoCards
  /\ click = NoClick

\* ------------------------------------------------- fetchInsights: effects
\* Variant: a response is dropped once a younger one has been displayed.
AcceptsNewestOnly(r2) == r2.written /\ ~r2.superseded

\* Whether a finished invocation writes its view's display string
\* (lines 160-161 and 173-174: whenever control reaches them).
Accepts(r2) == r2.written

\* Variant: the finally block is missing.
SettleWithoutFinally(reqs, i, r2, loading) ==
  LET done == r2.pc = "done"
      writes == done /\ Accepts(r2)
      older == [k \in 1..(i - 1) |->
                  IF r2.written /\ reqs[k].view = r2.view
                  THEN [reqs[k] EXCEPT !.superseded = TRUE] ELSE reqs[k]]
  IN /\ requests' = IF done THEN older \o SubSeq(reqs, i + 1, Len(reqs))
                    ELSE [reqs EXCEPT ![i] = r2]
     /\ last' = IF done THEN r2 ELSE Idle
     /\ isLoadingInsight' = loading
     /\ overviewInsight' =
          IF writes /\ r2.view = "overview" THEN r2.wrote ELSE overviewInsight
     /\ predictionInsight' =
          IF writes /\ r2.view # "overview" THEN r2.wrote
          ELSE predictionInsight

\* Invocation i of reqs has advanced to r2.  When r2 has run to its end,
\* write the display string of its view (unless the exception escaped) and
\* run the finally block.  loading is the busy flag while the invocation is
\* still suspended.
Settle(reqs, i, r2, loading) ==
  LET done == r2.pc = "done"
      writes == done /\ Accepts(r2)
      older == [k \in 1..(i - 1) |->
                  IF r2.written /\ reqs[k].view = r2.view
                  THEN [reqs[k] EXCEPT !.superseded = TRUE] ELSE reqs[k]]
  IN /\ requests' = IF done THEN older \o SubSeq(reqs, i + 1, Len(reqs))
                    ELSE [reqs EXCEPT ![i] = r2]
     /\ last' = IF done THEN r2 ELSE Idle
     /\ isLoadingInsight' = IF done THEN FALSE ELSE loading
     /\ overviewInsight' =
          IF writes /\ r2.view = "overview" THEN r2.wrote ELSE overviewInsight
     /\ predictionInsight' =
          IF writes /\ r2.view # "overview" THEN r2.wrote
          ELSE predictionInsight

StartFetch(view) ==
  /\ issued < MaxRequests
  /\ issued' = issued + 1
  /\ Settle(Append(requests, NewRequest(view)), Len(requests) + 1,
            Begin(NewRequest(view), apiKey), TRUE)
  /\ UNCHANGED apiKey

\* Variant: the effect does not look at the display strings.
EffectViewAnyText(tab, overview, prediction) ==
  IF tab = "overview" THEN "overview"
  ELSE IF tab = "prediction" THEN "prediction"
       ELSE "none"

\* The effect on [activeTab, fetchInsights] (lines 180-186).
EffectView(tab, overview, prediction) ==
  IF tab = "overview" /\ overview = <<>> THEN "overview"
  ELSE IF tab = "prediction" /\ prediction = <<>> THEN "prediction"
       ELSE "none"

InsightEffect(tab) ==
  LET v == EffectView(tab, overviewInsight, predictionInsight)
  IN IF v = "none"
     THEN UNCHANGED <<requests, issued, last, isLoadingInsight, overviewInsight,
                      predictionInsight, apiKey>>
     ELSE StartFetch(v)

\* ---------------------------------------------------------------- actions
Mount ==
  /\ phase = "constructed"
  /\ phase' = "mounted"
  /\ storage' = Stringify(data)
  /\ InsightEffect(activeTab)
  /\ UNCHANGED <<activeTab, data, stats, aistudio, ops, cards, click>>

SwitchTab(t) ==
  /\ phase = "mounted"
  /\ t # activeTab
  /\ activeTab' = t
  /\ cards' = NoCards
  /\ click' = NoClick
  /\ InsightEffect(t)
  /\ UNCHANGED <<phase, data, stats, storage, aistudio, ops>>

Refresh ==
  /\ phase = "mounted"
  /\ ~isLoadingInsight
  /\ StartFetch(IF activeTab = "prediction" THEN "prediction" ELSE "overview")
  /\ UNCHANGED <<phase, activeTab, data, stats, storage, aistudio, ops, cards,
                 click>>

\* Variant: the pipeline strips the entries it has reported on.
FrameClearsData ==
  /\ data' = EmptyData
  /\ UNCHANGED <<phase, activeTab, stats, storage, aistudio, ops, issued,
                 cards, click>>

Frame ==
  UNCHANGED <<phase, activeTab, data, stats, storage, aistudio, ops, issued,
              cards, click>>

HasKeyResolves(i, selected) ==
  /\ requests[i].pc = "hasKey"
  /\ LET r == requests[i]
         r2 == IF ~selected /\ ~apiKey
               THEN IF aistudio = "full"
                    THEN [r EXCEPT !.pc = "select1"]
                    ELSE Invoke(r, apiKey)
               ELSE Invoke(r, apiKey)
     IN Settle(requests, i, r2, isLoadingInsight)
  /\ UNCHANGED apiKey
  /\ Frame

HasKeyRejects(i, e) ==
  /\ requests[i].pc = "hasKey"
  /\ Settle(requests, i, CatchBlock(requests[i], e), isLoadingInsight)
  /\ UNCHANGED apiKey
  /\ Frame

Select1Resolves(i, key) ==
  /\ requests[i].pc = "select1"
  /\ apiKey' = key
  /\ Settle(requests, i, Invoke(requests[i], key), isLoadingInsight)
  /\ Frame

Select1Rejects(i, e) ==
  /\ requests[i].pc = "select1"
  /\ Settle(requests, i, CatchBlock(requests[i], e), isLoadingInsight)
  /\ UNCHANGED apiKey
  /\ Frame

CallResolves(i, resp) ==
  /\ requests[i].pc = "call"
  /\ LET out == OnResponse(resp)
     IN Settle(requests, i,
               Display([requests[i] EXCEPT !.response = resp,
                                           !.returned = out.value],
                       out.value),
               isLoadingInsight)
  /\ UNCHANGED apiKey
  /\ Frame

\* Variant: a failed call is retried once.
CallRejectsRetries(i, e) ==
  /\ requests[i].pc = "call"
  /\ LET out == OnFailure(e)
         rf == [requests[i] EXCEPT !.endpointError = e]
         r2 == IF rf.calls < 2 THEN [rf EXCEPT !.calls = @ + 1]
               ELSE IF out.throws
                    THEN CatchBlock([rf EXCEPT !.raised = out.value.message],
                                    out.value)
                    ELSE Display([rf EXCEPT !.returned = out.value], out.value)
     IN Settle(requests, i, r2, isLoadingInsight)
  /\ UNCHANGED apiKey
  /\ Frame

CallRejects(i, e) ==
  /\ requests[i].pc = "call"
  /\ LET out == OnFailure(e)
         rf == [requests[i] EXCEPT !.endpointError = e]
         r2 == IF out.throws
               THEN CatchBlock([rf EXCEPT !.raised = out.value.message],
                               out.value)
               ELSE Display([rf EXCEPT !.returned = out.value], out.value)
     IN Settle(requests, i, r2, isLoadingInsight)
  /\ UNCHANGED apiKey
  /\ Frame

Select2Resolves(i, key) ==
  /\ requests[i].pc = "select2"
  /\ apiKey' = key
  /\ Settle(requests, i, Display(requests[i], ConnectKeyText),
            isLoadingInsight)
  /\ Frame

Select2Rejects(i, e) ==
  /\ requests[i].pc = "select2"
  /\ Settle(requests, i, Escape(requests[i]), isLoadingInsight)
  /\ UNCHANGED apiKey
  /\ Frame

\* Variant: the persist effect is missing.
MutateUnpersisted(d) ==
  /\ phase = "mounted"
  /\ ops < MaxOps
  /\ ops' = ops + 1
  /\ data' = d
  /\ stats' = ComputeStats(d)
  /\ InsightEffect(activeTab)
  /\ UNCHANGED <<phase, activeTab, aistudio, storage>>

\* What follows every setData: the stats memo, the persist effect and the
\* insight effect (fetchInsights is rebuilt whenever data changes).
Mutate(d) ==
  /\ phase = "mounted"
  /\ ops < MaxOps
  /\ ops' = ops + 1
  /\ data' = d
  /\ stats' = ComputeStats(d)
  /\ storage' = Stringify(d)
  /\ InsightEffect(activeTab)
  /\ UNCHANGED <<phase, activeTab, aistudio>>

AddEntry(section, id, label, amount) ==
  /\ section \in CardSections(activeTab)
  /\ Mutate(addEntry(data, section, id, label, amount))
  /\ UNCHANGED <<cards, click>>

DeleteEntry(section, k) ==
  /\ section \in CardSections(activeTab)
  /\ k \in 1..Len(data[section])
  /\ Mutate(deleteEntry(data, section, data[section][k].id))
  /\ UNCHANGED <<cards, click>>

UpdateStatus(section, k) ==
  /\ section \in CardSections(activeTab) \cap StatusSections
  /\ k \in 1..Len(data[section])
  /\ Mutate(updateStatus(data, section, data[section][k].id,
                         NextStatus(data[section][k])))
  /\ UNCHANGED <<cards, click>>

UpdateEntry(section, k, label, amount) ==
  /\ section \in CardSections(activeTab)
  /\ k \in 1..Len(data[section])
  /\ Mutate(updateEntry(data, data[section][k].id, label, amount))
  /\ UNCHANGED <<cards, click>>

Next ==
  \/ Mount
  \/ \E t \in Tabs : SwitchTab(t)
  \/ Refresh
  \/ \E i \in 1..Len(requests), selected \in BOOLEAN : HasKeyResolves(i, selected)
  \/ \E i \in 1..Len(requests), e \in HookErrors : HasKeyRejects(i, e)
  \/ \E i \in 1..Len(requests), key \in {apiKey, TRUE} : Select1Resolves(i, key)
  \/ \E i \in 1..Len(requests), e \in HookErrors : Select1Rejects(i, e)
  \/ \E i \in 1..Len(requests), resp \in Responses : CallResolves(i, resp)
  \/ \E i \in 1..Len(requests), e \in ErrorValues : CallRejects(i, e)
  \/ \E i \in 1..Len(requests), key \in {apiKey, TRUE} : Select2Resolves(i, key)
  \/ \E i \in 1..Len(requests), e \in HookErrors : Select2Rejects(i, e)
  \/ \E s \in EditedSections, id \in IdPool, l \in Labels, a \in Amounts :
       AddEntry(s, id, l, a)
  \/ \E s \in EditedSections, k \in Rows : DeleteEntry(s, k)
  \/ \E s \in EditedSections, k \in Rows : UpdateStatus(s, k)
  \/ \E s \in EditedSections, k \in Rows, l \in Labels, a \in Amounts :
       UpdateEntry(s, k, l, a)

Spec == Init /\ [][Next]_vars

\* ------------------------------------------------- the pipeline on its own
\* The awaited promises of the invocations in flight settle: the hooks of
\* the hosting shell and the endpoint call.
Settles ==
  \/ \E i \in 1..Len(requests), selected \in BOOLEAN : HasKeyResolves(i, selected)
  \/ \E i \in 1..Len(requests), e \in HookErrors : HasKeyRejects(i, e)
  \/ \E i \in 1..Len(requests), key \in {apiKey, TRUE} : Select1Resolves(i, key)
  \/ \E i \in 1..Len(requests), e \in HookErrors : Select1Rejects(i, e)
  \/ \E i \in 1..Len(requests), resp \in Responses : CallResolves(i, resp)
  \/ \E i \in 1..Len(requests), e \in ErrorValues : CallRejects(i, e)
  \/ \E i \in 1..Len(requests), key \in {apiKey, TRUE} : Select2Resolves(i, key)
  \/ \E i \in 1..Len(requests), e \in HookErrors : Select2Rejects(i, e)

\* Sessions that only look at the tabs and refresh, in which every awaited
\* promise settles in the end.
NextPipeline ==
  \/ Mount
  \/ \E t \in Tabs : SwitchTab(t)
  \/ Refresh
  \/ Settles

SpecPipeline == Init /\ [][NextPipeline]_vars /\ WF_vars(Settles)

\* ------------------------------------------------- the metrics engine alone
\* A session without credential or hook (every insight request ends at
\* once), started from a wider range of persisted datasets and editing
\* every card.
MixedData ==
  [EmptyData EXCEPT
     !.savingsAccounts = << Plain("a", "Vault", 700) >>,
     !.accountBalances = << Plain("b", "Wallet", 40), Plain("c", "Bank", 260) >>,
     !.receivables = << Entry("d", "Refund", 50, PENDING) >>,
     !.loans = << Entry("e", "Car", 900, PAID) >>,
     !.savingsContribution = << Entry("f", "Fund", 30, UNPAID) >>,
     !.utilities = << Plain("g", "Water", 20), Entry("h", "Power", 60, PENDING) >>,
     !.otherExpenses = << Entry("i", "Food", 0, PAID) >>]

StatsSavedValues ==
  {Absent, Stringify(EmptyData), Stringify(ScenarioA), Stringify(MixedData)}

StatsAmounts == {0, 100}
StatsRows == {1, 2}

InitStats ==
  /\ phase = "constructed"
  /\ activeTab = "overview"
  /\ \E saved \in StatsSavedValues :
       /\ storage = saved
       /\ data = LoadData(saved)
  /\ stats = ComputeStats(data)
  /\ overviewInsight = <<>>
  /\ predictionInsight = <<>>
  /\ isLoadingInsight = FALSE
  /\ requests = <<>>
  /\ issued = 0
  /\ last = Idle
  /\ apiKey = FALSE
  /\ aistudio = "none"
  /\ ops = 0
  /\ cards = NoCards
  /\ click = NoClick

NextStats ==
  \/ Mount
  \/ \E t \in Tabs : SwitchTab(t)
  \/ Refresh
  \/ \E s \in Sections, id \in IdPool, l \in Labels, a \in StatsAmounts :
       AddEntry(s, id, l, a)
  \/ \E s \in Sections, k \in StatsRows : DeleteEntry(s, k)
  \/ \E s \in Sections, k \in StatsRows : UpdateStatus(s, k)
  \/ \E s \in Sections, k \in StatsRows, l \in Labels, a \in StatsAmounts :
       UpdateEntry(s, k, l, a)

SpecStats == InitStats /\ [][NextStats]_vars

\* ------------------------------------------- the ledger with large amounts
\* Sessions whose amounts reach past the exactly representable integers.
\* The persisted datasets are ones earlier sessions produced from the
\* default dataset with the cards' own operations.
Unsafe == 2^SignificandBits

LedgerBig ==
  addEntry(addEntry(addEntry(DEFAULT_DATA, "utilities", "n2", "Rent", Unsafe),
                    "utilities", "n3", "Fee", 1),
           "utilities", "n4", "Tip", 1)

LedgerPaid == updateStatus(LedgerBig, "utilities", "n2", PAID)

LedgerAbsorbed ==
  updateStatus(addEntry(addEntry(DEFAULT_DATA, "loans", "n2", "Mortgage", Unsafe),
                        "loans", "n3", "Stamp", 1),
               "loans", "n3", PAID)

NumbersSavedValues ==
  {Absent, Stringify(LedgerBig), Stringify(LedgerPaid),
   Stringify(LedgerAbsorbed)}

NumbersAmounts == {0, 1, Unsafe}
NumbersRows == {1, 3}

InitNumbers ==
  /\ phase = "constructed"
  /\ activeTab = "overview"
  /\ \E saved \in NumbersSavedValues :
       /\ storage = saved
       /\ data = LoadData(saved)
  /\ stats = ComputeStats(data)
  /\ overviewInsight = <<>>
  /\ predictionInsight = <<>>
  /\ isLoadingInsight = FALSE
  /\ requests = <<>>
  /\ issued = 0
  /\ last = Idle
  /\ apiKey = FALSE
  /\ aistudio = "none"
  /\ ops = 0
  /\ cards = NoCards
  /\ click = NoClick

NextNumbers ==
  \/ Mount
  \/ \E t \in Tabs : SwitchTab(t)
  \/ Refresh
  \/ \E s \in Sections, id \in IdPool, l \in Labels, a \in NumbersAmounts :
       AddEntry(s, id, l, a)
  \/ \E s \in Sections, k \in NumbersRows : DeleteEntry(s, k)
  \/ \E s \in Sections, k \in NumbersRows : UpdateStatus(s, k)
  \/ \E s \in Sections, k \in NumbersRows, l \in Labels, a \in NumbersAmounts :
       UpdateEntry(s, k, l, a)

SpecNumbers == InitNumbers /\ [][NextNumbers]_vars

\* ------------------------------------------------- the callbacks on their own
\* addEntry, deleteEntry, updateStatus and updateEntry called as the plain
\* functions they are, with any section, id and status, on datasets whose
\* totals stay inside the exactly representable integers.  EarlierAdd is
\* what a session that added one entry has persisted.
EarlierAdd == addEntry(DEFAULT_DATA, "utilities", "n1", "Test", 100)

CallsSavedValues == StatsSavedValues \cup {Stringify(EarlierAdd)}

CallIds == IdPool \cup {"5", "7", "11", "h"}

Statuses == {UNPAID, PAID, PENDING}

CallAddEntry(section, id, label, amount) ==
  /\ Mutate(addEntry(data, section, id, label, amount))
  /\ UNCHANGED <<cards, click>>

CallDeleteEntry(section, id) ==
  /\ Mutate(deleteEntry(data, section, id))
  /\ UNCHANGED <<cards, click>>

CallUpdateStatus(section, id, status) ==
  /\ Mutate(updateStatus(data, section, id, status))
  /\ UNCHANGED <<cards, click>>

CallUpdateEntry(id, label, amount) ==
  /\ Mutate(updateEntry(data, id, label, amount))
  /\ UNCHANGED <<cards, click>>

InitCalls ==
  /\ phase = "constructed"
  /\ activeTab = "overview"
  /\ \E saved \in CallsSavedValues :
       /\ storage = saved
       /\ data = LoadData(saved)
  /\ stats = ComputeStats(data)
  /\ overviewInsight = <<>>
  /\ predictionInsight = <<>>
  /\ isLoadingInsight = FALSE
  /\ requests = <<>>
  /\ issued = 0
  /\ last = Idle
  /\ apiKey = FALSE
  /\ aistudio = "none"
  /\ ops = 0
  /\ cards = NoCards
  /\ click = NoClick

NextCalls ==
  \/ Mount
  \/ \E s \in Sections, id \in IdPool, l \in Labels, a \in StatsAmounts :
       CallAddEntry(s, id, l, a)
  \/ \E s \in Sections, id \in CallIds : CallDeleteEntry(s, id)
  \/ \E s \in Sections, id \in CallIds, status \in Statuses :
       CallUpdateStatus(s, id, status)
  \/ \E id \in CallIds, l \in Labels, a \in StatsAmounts :
       CallUpdateEntry(id, l, a)

SpecCalls == InitCalls /\ [][NextCalls]_vars

\* ------------------------------------------------------------ the startup
\* Sessions started on whatever the persisted key may hold: also JSON texts
\* that are no DashboardData, the empty object and an object with a single
\* list.  The first render reads the lists of StatsSections; where one is
\* missing, calculateTotal(undefined) throws a TypeError, the App is
\* unmounted and no effect ever runs.
EmptyObjectText == [kind |-> "json", value |-> <<>>]

SingleListText ==
  [kind |-> "json",
   value |-> <<"accountBalances",
               StringifyList(<< Plain("5", "BDO Checkings", 8500) >>)>>]

LoadSavedValues ==
  {Absent, Corrupt, Stringify(ScenarioA), Stringify(MixedData),
   EmptyObjectText, SingleListText}

Renders(d) == StatsSections \subseteq DOMAIN d

RenderError == [error |-> "TypeError"]

InitLoad ==
  /\ activeTab = "overview"
  /\ \E saved \in LoadSavedValues :
       /\ storage = saved
       /\ data = LoadData(saved)
  /\ phase = IF Renders(data) THEN "constructed" ELSE "crashed"
  /\ stats = IF Renders(data) THEN ComputeStats(data) ELSE RenderError
  /\ overviewInsight = <<>>
  /\ predictionInsight = <<>>
  /\ isLoadingInsight = FALSE
  /\ requests = <<>>
  /\ issued = 0
  /\ last = Idle
  /\ apiKey = FALSE
  /\ aistudio = "none"
  /\ ops = 0
  /\ cards = NoCards
  /\ click = NoClick

SpecLoad == InitLoad /\ [][NextStats]_vars

\* ------------------------------------------------- the cards, click by click
\* The texts of the inputs.  A label text is a string; trim is given for
\* the label texts that are typed, and leaves every other label (those the
\* entries already have, which carry no outer blanks) as it is.
LabelTexts == {" ", " Rent "}

Trim(text) ==
  CASE text = " " -> ""
    [] text = " Rent " -> "Rent"
    [] OTHER -> text

\* What a number input hands over as its value: the empty text when the
\* field is empty or holds no number, or the digits of a number, with a
\* sign when it is negative (min="0" marks the field invalid, it does not
\* change its value).
AmountTexts == {<<>>, <<"-", "5">>, <<"4", "0">>}

DigitChars == <<"0", "1", "2", "3", "4", "5", "6", "7", "8", "9">>

\* Number.prototype.toString, for the integer-valued numbers.
RECURSIVE DigitsOf(_)
DigitsOf(n) ==
  IF n < 10 THEN <<DigitChars[n + 1]>>
  ELSE Append(DigitsOf(n \div 10), DigitChars[(n % 10) + 1])

NumberToString(n) == IF n < 0 THEN <<"-">> \o DigitsOf(0 - n) ELSE DigitsOf(n)

\* parseFloat: an optional sign and the longest run of digits after it;
\* NaN when there is no digit.  (Fractions and exponents do not occur in
\* the texts above.)
RECURSIVE DigitRun(_, _, _)
DigitRun(text, k, acc) ==
  IF k > Len(text) \/ \A v \in 1..10 : DigitChars[v] # text[k]
  THEN [end |-> k, value |-> acc]
  ELSE DigitRun(text, k + 1,
                acc * 10 + (CHOOSE v \in 1..10 : DigitChars[v] = text[k]) - 1)

parseFloat(text) ==
  LET signed == text # <<>> /\ text[1] \in {"-", "+"}
      first == IF signed THEN 2 ELSE 1
      run == DigitRun(text, first, 0)
      magnitude == RoundToNearestEven(run.value)
  IN IF run.end = first THEN [nan |-> TRUE, value |-> 0]
     ELSE [nan |-> FALSE,
           value |-> IF signed /\ text[1] = "-" THEN 0 - magnitude
                     ELSE magnitude]

\* part_001 holds two revisions of the card: lines 1-291 and lines 294-530.
\* They differ in the test of handleAdd and saveEdit, in the trimming of
\* the label and in justSavedId, which only the first has.
Current == "lines 1-291"
Earlier == "lines 294-530"

\* Variant: the test of the forms lets every input through.
PassesAlways(rev, label, amount) == TRUE

\* The test of handleAdd and saveEdit (lines 49 and 71; lines 330 and 352).
Passes(rev, label, amount) ==
  IF rev = Current
  THEN Trim(label) # "" /\ ~amount.nan /\ amount.value >= 0
  ELSE label # "" /\ ~amount.nan

\* The label handed to onAdd and onUpdateEntry.
Committed(rev, label) == IF rev = Current THEN Trim(label) ELSE label

\* Variant: only the confirmation of the same kind is withdrawn.
resetDeleteOnly(c) == [c EXCEPT !.confirmingDeleteId = NULL]

resetConfirmations(c) ==
  [c EXCEPT !.confirmingDeleteId = NULL, !.confirmingStatusId = NULL]

\* A card event that calls none of the App's callbacks.
CardFrame ==
  UNCHANGED <<phase, activeTab, data, stats, storage, overviewInsight,
              predictionInsight, isLoadingInsight, requests, issued, last,
              apiKey, aistudio, ops>>

Mounted(s) == phase = "mounted" /\ s \in CardSections(activeTab)

\* Row k of card s is shown: as its edit form, or with its controls.
Edited(s, k) ==
  Mounted(s) /\ k \in 1..Len(data[s]) /\ cards[s].editingId = data[s][k].id

Viewed(s, k) ==
  Mounted(s) /\ k \in 1..Len(data[s]) /\ cards[s].editingId # data[s][k].id

\* onChange of the four inputs; those of the edit form exist while a row
\* is being edited.
onChange(s, field, text) ==
  /\ Mounted(s)
  /\ field \in {"editLabel", "editAmount"} =>
       \E k \in 1..Len(data[s]) : Edited(s, k)
  /\ cards' = [cards EXCEPT ![s][field] = text]
  /\ UNCHANGED click
  /\ CardFrame

\* The form is submitted.  id is what generateId returns in addEntry.
handleAdd(rev, s, id) ==
  LET c == cards[s]
      amount == parseFloat(c.newAmount)
  IN /\ Mounted(s)
     /\ click' = [on |-> "add", section |-> s, id |-> NULL]
     /\ IF Passes(rev, c.newLabel, amount)
        THEN /\ Mutate(addEntry(data, s, id, Committed(rev, c.newLabel),
                                amount.value))
             /\ cards' = [cards EXCEPT ![s].newLabel = "",
                                       ![s].newAmount = <<>>]
        ELSE /\ cards' = cards
             /\ CardFrame

\* A click on the label of a row that is not being edited.
startEditing(s, k) ==
  /\ Viewed(s, k)
  /\ cards' = [cards EXCEPT ![s] =
                 resetConfirmations(
                   [@ EXCEPT !.editingId = data[s][k].id,
                             !.editLabel = data[s][k].label,
                             !.editAmount = NumberToString(data[s][k].amount)])]
  /\ click' = [on |-> "edit", section |-> s, id |-> data[s][k].id]
  /\ CardFrame

cancelEditing(s, k) ==
  /\ Edited(s, k)
  /\ cards' = [cards EXCEPT ![s].editingId = NULL, ![s].editLabel = "",
                            ![s].editAmount = <<>>]
  /\ click' = [on |-> "cancelEdit", section |-> s, id |-> data[s][k].id]
  /\ CardFrame

saveEdit(rev, s, k) ==
  LET c == cards[s]
      id == data[s][k].id
      amount == parseFloat(c.editAmount)
  IN /\ Edited(s, k)
     /\ click' = [on |-> "save", section |-> s, id |-> id]
     /\ IF Passes(rev, c.editLabel, amount)
        THEN /\ Mutate(updateEntry(data, id, Committed(rev, c.editLabel),
                                   amount.value))
             /\ cards' = [cards EXCEPT ![s] =
                            [c EXCEPT !.editingId = NULL,
                                      !.justSavedId =
                                         IF rev = Current THEN id ELSE @]]
        ELSE /\ cards' = cards
             /\ CardFrame

\* The cross beside an armed control.
cancelConfirmation(s, k) ==
  /\ Viewed(s, k)
  /\ \/ cards[s].confirmingDeleteId = data[s][k].id
     \/ s \in StatusSections /\ cards[s].confirmingStatusId = data[s][k].id
  /\ cards' = [cards EXCEPT ![s] = resetConfirmations(@)]
  /\ click' = [on |-> "cancelConfirm", section |-> s, id |-> data[s][k].id]
  /\ CardFrame

handleDeleteClick(s, k) ==
  LET c == cards[s]
      id == data[s][k].id
  IN /\ Viewed(s, k)
     /\ click' = [on |-> "delete", section |-> s, id |-> id]
     /\ IF c.confirmingDeleteId = id
        THEN /\ Mutate(deleteEntry(data, s, id))
             /\ cards' = [cards EXCEPT ![s].confirmingDeleteId = NULL]
        ELSE /\ cards' = [cards EXCEPT ![s] =
                            [resetConfirmations(c) EXCEPT
                               !.confirmingDeleteId = id]]
             /\ CardFrame

handleStatusClick(rev, s, k) ==
  LET c == cards[s]
      id == data[s][k].id
  IN /\ Viewed(s, k)
     /\ s \in StatusSections
     /\ click' = [on |-> "status", section |-> s, id |-> id]
     /\ IF c.confirmingStatusId = id
        THEN /\ Mutate(updateStatus(data, s, id, NextStatus(data[s][k])))
             /\ cards' = [cards EXCEPT ![s] =
                            [c EXCEPT !.confirmingStatusId = NULL,
                                      !.justSavedId =
                                         IF rev = Current THEN id ELSE @]]
        ELSE /\ cards' = [cards EXCEPT ![s] =
                            [resetConfirmations(c) EXCEPT
                               !.confirmingStatusId = id]]
             /\ CardFrame

\* The timer of the effect on [justSavedId] (lines 39-44).
SavedTimeout(s) ==
  /\ Mounted(s)
  /\ cards[s].justSavedId # NULL
  /\ cards' = [cards EXCEPT ![s].justSavedId = NULL]
  /\ UNCHANGED click
  /\ CardFrame

\* The card and rows that are worked on, and what is typed into the add
\* form while the rows are worked on.
CardsUsed == {"utilities"}
CardRows == {1, 2}
AddLabelTexts == {" Rent "}
AddAmountTexts == {<<"4", "0">>}

InitCard ==
  /\ phase = "constructed"
  /\ activeTab = "overview"
  /\ storage = Stringify(MixedData)
  /\ data = LoadData(storage)
  /\ stats = ComputeStats(data)
  /\ overviewInsight = <<>>
  /\ predictionInsight = <<>>
  /\ isLoadingInsight = FALSE
  /\ requests = <<>>
  /\ issued = 0
  /\ last = Idle
  /\ apiKey = FALSE
  /\ aistudio = "none"
  /\ ops = 0
  /\ cards = NoCards
  /\ click = NoClick

NextCard ==
  \/ Mount
  \/ \E t \in Tabs : SwitchTab(t)
  \/ \E s \in CardsUsed, text \in AddLabelTexts : onChange(s, "newLabel", text)
  \/ \E s \in CardsUsed, text \in AddAmountTexts : onChange(s, "newAmount", text)
  \/ \E s \in CardsUsed, text \in LabelTexts : onChange(s, "editLabel", text)
  \/ \E s \in CardsUsed, text \in AmountTexts : onChange(s, "editAmount", text)
  \/ \E s \in CardsUsed, id \in IdPool : handleAdd(Current, s, id)
  \/ \E s \in CardsUsed, k \in CardRows : startEditing(s, k)
  \/ \E s \in CardsUsed, k \in CardRows : cancelEditing(s, k)
  \/ \E s \in CardsUsed, k \in CardRows : saveEdit(Current, s, k)
  \/ \E s \in CardsUsed, k \in CardRows : cancelConfirmation(s, k)
  \/ \E s \in CardsUsed, k \in CardRows : handleDeleteClick(s, k)
  \/ \E s \in CardsUsed, k \in CardRows : handleStatusClick(Current, s, k)
  \/ \E s \in CardsUsed : SavedTimeout(s)

SpecCard == InitCard /\ [][NextCard]_vars

\* The same session with the earlier revision of the card.
NextCardEarlier ==
  \/ Mount
  \/ \E t \in Tabs : SwitchTab(t)
  \/ \E s \in CardsUsed, text \in AddLabelTexts : onChange(s, "newLabel", text)
  \/ \E s \in CardsUsed, text \in AddAmountTexts : onChange(s, "newAmount", text)
  \/ \E s \in CardsUsed, text \in LabelTexts : onChange(s, "editLabel", text)
  \/ \E s \in CardsUsed, text \in AmountTexts : onChange(s, "editAmount", text)
  \/ \E s \in CardsUsed, id \in IdPool : handleAdd(Earlier, s, id)
  \/ \E s \in CardsUsed, k \in CardRows : startEditing(s, k)
  \/ \E s \in CardsUsed, k \in CardRows : cancelEditing(s, k)
  \/ \E s \in CardsUsed, k \in CardRows : saveEdit(Earlier, s, k)
  \/ \E s \in CardsUsed, k \in CardRows : cancelConfirmation(s, k)
  \/ \E s \in CardsUsed, k \in CardRows : handleDeleteClick(s, k)
  \/ \E s \in CardsUsed, k \in CardRows : handleStatusClick(Earlier, s, k)

SpecCardEarlier == InitCard /\ [][NextCardEarlier]_vars

\* ================================================================ claims
Insight(view) ==
  IF view = "overview" THEN overviewInsight ELSE predictionInsight

\* Every invocation the state still knows: the suspended ones and the one
\* that has just run to its end.
Seen == {requests[i] : i \in 1..Len(requests)} \cup {last}

Embeds(m, text) ==
  \E k \in 1..(Len(text) + 1) :
    k + Len(m) - 1 <= Len(text) /\ SubSeq(text, k, k + Len(m) - 1) = m

MessageOf(error) == IF error.kind = "error" THEN error.message ELSE <<>>

\* C1: with no API credential configured and no key-selection hook, every
\* invocation fails with API_KEY_MISSING and never issues an endpoint call.
C1_CredentialMissingNoCall ==
  (aistudio = "none" /\ ~apiKey) =>
    \A r \in Seen :
      /\ r.calls = 0
      /\ r.pc # "call"
      /\ r.pc = "done" => r.raised = API_KEY_MISSING /\ r.returned = <<>>

C1_Witness ==
  /\ aistudio = "none" /\ ~apiKey
  /\ last.pc = "done" /\ last.raised = API_KEY_MISSING /\ last.calls = 0

\* C2: a missing credential and a 'not found' failure are raised as typed
\* errors; every other endpoint failure is returned as a fallback string
\* that embeds the raw error message; never both, never neither.
C2_FailureClassification ==
  \A r \in Seen :
    /\ r.entered = "noKey" => r.raised = API_KEY_MISSING /\ r.returned = <<>>
    /\ r.endpointError # NoError =>
         IF Includes(MessageOf(r.endpointError), NotFoundPhrase)
         THEN r.raised = MODEL_NOT_FOUND /\ r.returned = <<>>
         ELSE /\ r.raised = <<>>
              /\ r.returned # <<>>
              /\ Head(r.returned) = PausedPrefix
              /\ Embeds(MessageOf(r.endpointError), r.returned)

C2_Witness ==
  /\ last.pc = "done"
  /\ last.endpointError = Err(<<"timeout">>)
  /\ last.returned = <<PausedPrefix, "timeout">>

\* C3: whatever the outcome of an invocation, no exception escapes
\* fetchInsights and the display string of its view ends up non-empty.
C3_NeverCrashes ==
  last.pc = "done" => ~last.escaped /\ Insight(last.view) # <<>>

\* C4: on a successful response the text is returned verbatim when it is
\* non-empty and the canned fallback when it is empty or absent; the
\* returned string is never empty.
C4_ResponseText ==
  \A r \in Seen :
    /\ r.response # NoResponse =>
         /\ r.returned = IF r.response.hasText /\ r.response.text # <<>>
                         THEN r.response.text ELSE NoContentText
         /\ r.returned # <<>>
    /\ (r.pc = "done" /\ r.entered = "withKey" /\ r.raised = <<>>) =>
         r.returned # <<>>

C4_Witness ==
  /\ last.pc = "done"
  /\ last.response = Resp(TRUE, <<>>)
  /\ last.returned = NoContentText
  /\ Insight(last.view) = NoContentText

\* C5: an invocation that passes the credential check issues exactly one
\* endpoint call, also after a failure or an empty response; one that does
\* not pass issues none.
C5_ExactlyOneCall ==
  \A r \in Seen : r.calls = IF r.entered = "withKey" THEN 1 ELSE 0

C5_Witness ==
  /\ last.pc = "done"
  /\ last.endpointError # NoError
  /\ last.calls = 1

\* C6: a step of the insight pipeline (an invocation starts, resumes or
\* ends) leaves DashboardData, and what is derived from it, unchanged.
C6_PipelineReadOnly ==
  [][(issued' # issued \/ requests' # requests)
       => (data' = data /\ stats' = stats)]_vars

C6_Witness ==
  /\ ops > 0
  /\ data # DEFAULT_DATA
  /\ last.pc = "done"
  /\ last.entered = "withKey"

\* C7: at most one insight request is in flight at any time.
C7_AtMostOneInFlight == Len(requests) <= 1

\* C8: responses are applied last-write-wins: the display string of a view
\* is the text of the response that arrived last, also when that response
\* belongs to an older request than the one displayed before.
C8_LastWriteWins ==
  (last.pc = "done" /\ last.written) => Insight(last.view) = last.wrote

C8_Witness ==
  /\ last.pc = "done" /\ last.written /\ last.superseded
  /\ Insight(last.view) = last.wrote

\* C9: a typed error (API_KEY_MISSING, MODEL_NOT_FOUND) makes fetchInsights
\* call openSelectKey when the hook exists and set the view's display string
\* to the connect-your-key message; no other outcome calls openSelectKey
\* from the catch block.
C9_TypedErrorPrompts ==
  last.pc = "done" =>
    IF last.raised # <<>>
    THEN /\ aistudio = "full" => last.catchPrompt
         /\ last.written
         /\ Insight(last.view) = ConnectKeyText
    ELSE ~last.catchPrompt

\* The reference sum of a category: the amounts, added from the right.
RECURSIVE SumAmounts(_)
SumAmounts(entries) ==
  IF entries = <<>> THEN 0
  ELSE Head(entries).amount + SumAmounts(Tail(entries))

ReferenceExpenses(d) ==
  SumAmounts(d.loans) + SumAmounts(d.subscriptions)
  + SumAmounts(d.savingsContribution) + SumAmounts(d.utilities)
  + SumAmounts(d.plans) + SumAmounts(d.mandatories)
  + SumAmounts(d.otherExpenses)

\* C10: the derived stats equal the reference definition for every
\* DashboardData; they are all 0 when every category is empty; Scenario A
\* gives usable 8500, totalExpenses 12000, unpaidExpenses 12000 and
\* remainingBalance -3500.
C10_StatsReference ==
  /\ stats.savings = SumAmounts(data.savingsAccounts)
  /\ stats.contributions = SumAmounts(data.savingsContribution)
  /\ stats.totalSavings = stats.savings + stats.contributions
  /\ stats.usable = SumAmounts(data.accountBalances)
  /\ stats.totalExpenses = ReferenceExpenses(data)
  /\ stats.remainingBalance = stats.usable - stats.totalExpenses
  /\ (\A s \in Sections : data[s] = <<>>) =>
       \A f \in DOMAIN stats : stats[f] = 0
  /\ data = ScenarioA =>
       /\ stats.usable = 8500
       /\ stats.totalExpenses = 12000
       /\ stats.unpaidExpenses = 12000
       /\ stats.remainingBalance = -3500

C10_Witness ==
  /\ phase = "mounted"
  /\ data = ScenarioA
  /\ stats.usable = 8500
  /\ stats.remainingBalance = -3500

\* The datasets that differ from d only in the order of the entries of one
\* category.
Reordered(d) ==
  UNION {{[d EXCEPT ![section] = [k \in 1..Len(@) |-> @[p[k]]]] :
            p \in Permutations(1..Len(d[section]))} : section \in Sections}

\* C11: permuting the entries within any category changes none of the
\* computed totals.
C11_OrderIndependent ==
  \A d2 \in Reordered(data) : ComputeStats(d2) = stats

\* The expense entries, by what the data holds.
ExpenseEntries == UNION {{data[s][k] : k \in 1..Len(data[s])} : s \in ExpenseSections}

HasStatus(e, status) == "status" \in DOMAIN e /\ e.status = status

\* C12: in every state reached from the default dataset by add, edit,
\* delete and status-change operations, unpaidExpenses <= totalExpenses.
C12_UnpaidAtMostTotal == stats.unpaidExpenses <= stats.totalExpenses

C12_Witness ==
  /\ ops > 0
  /\ stats.totalExpenses > Unsafe
  /\ stats.unpaidExpenses > 0
  /\ stats.unpaidExpenses < stats.totalExpenses

\* C13 as claimed: unpaidExpenses equals totalExpenses if and only if every
\* expense entry's status is Paid.
C13_EqualIffAllPaid ==
  (stats.unpaidExpenses = stats.totalExpenses)
    <=> (\A e \in ExpenseEntries : HasStatus(e, PAID))

\* C13 amended: unpaidExpenses equals totalExpenses whenever every Paid
\* expense entry has amount 0, in particular when no expense entry is Paid;
\* when every expense entry is Paid, unpaidExpenses is 0.
C13_EqualWhenNonePaid ==
  /\ (\A e \in ExpenseEntries : HasStatus(e, PAID) => e.amount = 0)
       => stats.unpaidExpenses = stats.totalExpenses
  /\ (\A e \in ExpenseEntries : HasStatus(e, PAID))
       => stats.unpaidExpenses = 0

C13_Witness ==
  /\ ops > 0
  /\ \A e \in ExpenseEntries : ~HasStatus(e, PAID)
  /\ stats.totalExpenses > Unsafe
  /\ stats.unpaidExpenses = stats.totalExpenses

\* What an entry adds to the unpaid total, by cases on its status field.
UnpaidShare(e) ==
  IF "status" \notin DOMAIN e THEN e.amount
  ELSE IF e.status = UNPAID \/ e.status = PENDING THEN e.amount
       ELSE 0

RECURSIVE SumUnpaid(_)
SumUnpaid(entries) ==
  IF entries = <<>> THEN 0
  ELSE UnpaidShare(Head(entries)) + SumUnpaid(Tail(entries))

\* C14: an expense entry counts toward unpaidExpenses exactly when its
\* status is not Paid: Unpaid, Pending and entries without a status field
\* are included, Paid entries are excluded.
C14_UnpaidMembership ==
  stats.unpaidExpenses =
    SumUnpaid(data.loans) + SumUnpaid(data.subscriptions)
    + SumUnpaid(data.savingsContribution) + SumUnpaid(data.utilities)
    + SumUnpaid(data.plans) + SumUnpaid(data.mandatories)
    + SumUnpaid(data.otherExpenses)

C14_Witness ==
  /\ ops > 0
  /\ \E e \in ExpenseEntries : "status" \notin DOMAIN e /\ e.amount > 0
  /\ \E e \in ExpenseEntries : HasStatus(e, PENDING) /\ e.amount > 0
  /\ \E e \in ExpenseEntries : HasStatus(e, UNPAID) /\ e.amount > 0
  /\ \E e \in ExpenseEntries : HasStatus(e, PAID) /\ e.amount > 0
  /\ stats.unpaidExpenses < stats.totalExpenses

\* C15: savingsContribution is counted twice: adding an entry of amount a
\* to savingsContribution raises totalSavings and totalExpenses by a,
\* lowers remainingBalance by a and leaves usable unchanged.
C15_ContributionCountedTwice ==
  [][\A id \in IdPool, l \in Labels, a \in StatsAmounts :
       data' = addEntry(data, "savingsContribution", id, l, a) =>
         /\ stats'.contributions = stats.contributions + a
         /\ stats'.totalSavings = stats.totalSavings + a
         /\ stats'.totalExpenses = stats.totalExpenses + a
         /\ stats'.remainingBalance = stats.remainingBalance - a
         /\ stats'.usable = stats.usable
         /\ stats'.savings = stats.savings]_vars

C15_Witness ==
  /\ ops > 0
  /\ data = addEntry(ScenarioA, "savingsContribution", "n1", "Test", 100)
  /\ stats.totalSavings = 100
  /\ stats.totalExpenses = 12100
  /\ stats.remainingBalance = 0 - 3600
  /\ stats.usable = 8500

\* Amounts of usable funds to compare the current one with.
UsableSamples == {0, 1, 40, 100, 300, 301, 8500, 8560, 12000, 120000}

\* C16: safetyRatio is min(999, round(usable / (totalExpenses or 1) * 100)):
\* it never exceeds 999, it does not decrease when usable grows while
\* totalExpenses stays fixed, and the divisor is 1 when totalExpenses is 0.
C16_SafetyRatio ==
  LET n == safetyRatio(stats)
      d == IF stats.totalExpenses = 0 THEN 1 ELSE stats.totalExpenses
  IN /\ n <= 999
     /\ n < 999 => /\ 2 * n * d <= 200 * stats.usable + d
                   /\ 200 * stats.usable + d < 2 * (n + 1) * d
     /\ n = 999 => 1997 * d <= 200 * stats.usable
     /\ \A u \in UsableSamples :
          /\ u >= stats.usable =>
               safetyRatio([stats EXCEPT !.usable = u]) >= n
          /\ u <= stats.usable =>
               safetyRatio([stats EXCEPT !.usable = u]) <= n
     /\ data = ScenarioA => n = 71

C16_Witness ==
  /\ ops > 0
  /\ stats.totalExpenses = 0
  /\ stats.usable = 100
  /\ safetyRatio(stats) = 999
  /\ safetyRatio([stats EXCEPT !.usable = 1]) = 100

\* C17: the projection is exactly three records, for i = 1, 2, 3, with
\* balance_i = usable + remainingBalance * i and safety_i =
\* balance_i / (totalExpenses or 1) * 100 clamped into [0, 100], also for
\* negative balances and for totalExpenses = 0.
C17_Projection ==
  LET months == predictionData(stats)
      d == IF stats.totalExpenses = 0 THEN 1 ELSE stats.totalExpenses
  IN /\ DOMAIN months = 1..3
     /\ \A i \in 1..3 :
          LET m == months[i]
              b == stats.usable + stats.remainingBalance * i
          IN /\ m.index = i
             /\ m.balance = b
             /\ m.safety.den > 0
             /\ 0 <= m.safety.num /\ m.safety.num <= 100 * m.safety.den
             /\ b <= 0 => m.safety.num = 0
             /\ b >= d => m.safety.num = 100 * m.safety.den
             /\ (0 < b /\ b < d) =>
                  /\ m.safety.num = (100 * b) \div GCD(100 * b, d)
                  /\ m.safety.den = d \div GCD(100 * b, d)

C17_Witness ==
  /\ phase = "mounted"
  /\ data = ScenarioA
  /\ predictionData(stats)[1].balance = 5000
  /\ predictionData(stats)[1].safety = [num |-> 125, den |-> 3]
  /\ predictionData(stats)[3].balance = 0 - 2000
  /\ predictionData(stats)[3].safety = [num |-> 0, den |-> 1]

\* C18: adding an entry with amount a to an expense category lengthens the
\* category by one and raises totalExpenses by a, and deleting that entry
\* by its id afterwards restores the category list and every derived
\* total.
C18_AddDeleteRoundTrip ==
  [][\A s \in ExpenseSections, id \in IdPool, l \in Labels,
        a \in StatsAmounts :
       data' = addEntry(data, s, id, l, a) =>
         /\ Len(data'[s]) = Len(data[s]) + 1
         /\ stats'.totalExpenses = stats.totalExpenses + a
         /\ deleteEntry(data', s, id) = data
         /\ ComputeStats(deleteEntry(data', s, id)) = stats]_vars

\* C19: after startup and after every mutation of DashboardData (add,
\* delete, status change, entry edit) the persisted value is the
\* serialization of the current in-memory DashboardData: once the effects
\* of a change have run, the persisted value does not lag behind.
C19_PersistedIsCurrent ==
  phase = "mounted" =>
    /\ storage = Stringify(data)
    /\ LoadData(storage) = data

C19_Witness ==
  /\ phase = "mounted"
  /\ ops > 0
  /\ data = addEntry(MixedData, "utilities", "n1", "Test", 100)
  /\ storage = Stringify(data)

\* C20: the startup load round-trips and is total: a value written from a
\* well-formed DashboardData reloads to an equal structure, a missing value
\* and any malformed value load the default dataset without throwing, and
\* the loaded state always has all ten category lists.
C20_LoadIsTotal ==
  /\ phase # "crashed"
  /\ DOMAIN data = Sections
  /\ phase = "constructed" =>
       IF storage.kind = "json" THEN Stringify(data) = storage
       ELSE data = DEFAULT_DATA

\* What the claim calls malformed input: an empty or whitespace-only label,
\* an amount text that is no number, or a negative amount.
Malformed(label, amountText) ==
  \/ Trim(label) = ""
  \/ parseFloat(amountText).nan
  \/ parseFloat(amountText).value < 0

WellFormed(d) ==
  \A s \in DOMAIN d : \A k \in 1..Len(d[s]) :
    Trim(d[s][k].label) # "" /\ d[s][k].amount >= 0

\* C21: malformed input to add-entry or save-edit (empty or whitespace-only
\* label, non-numeric amount, negative amount) is rejected before any state
\* mutation; consequently every entry of every reachable state has a
\* non-empty label and an amount >= 0.
C21_MalformedRejected ==
  /\ WellFormed(data)
  /\ [][\A s \in Sections :
          /\ (click'.on = "add" /\ click'.section = s
              /\ Malformed(cards[s].newLabel, cards[s].newAmount))
               => data' = data
          /\ (click'.on = "save" /\ click'.section = s
              /\ Malformed(cards[s].editLabel, cards[s].editAmount))
               => data' = data
          /\ WellFormed(data')]_vars

\* C22: every entry belongs to exactly one category: ids are unique, no id
\* occurs in two categories or twice within one, each add creating its
\* entry with a fresh id.
C22_UniqueIds ==
  \A s1 \in Sections, s2 \in Sections :
    \A k1 \in 1..Len(data[s1]), k2 \in 1..Len(data[s2]) :
      data[s1][k1].id = data[s2][k2].id => s1 = s2 /\ k1 = k2

\* What is armed in card s once the latest click was c: nothing, unless c
\* was a click on a delete or status control, and then at most that control
\* of that row.
ArmedOnlyBy(c, s) ==
  /\ cards[s].confirmingDeleteId # NULL =>
       c = [on |-> "delete", section |-> s, id |-> cards[s].confirmingDeleteId]
  /\ cards[s].confirmingStatusId # NULL =>
       c = [on |-> "status", section |-> s, id |-> cards[s].confirmingStatusId]

\* C23: a delete (or status change) of a row is executed only by a click on
\* the row's delete (status) control that directly follows the arming click
\* on the same control of the same row; any other click in between (another
\* row, another control, edit, save, cancel-edit, add) or an explicit cancel
\* resets the row to Viewing.
C23_ConfirmDirectlyFollows ==
  [][\A s \in Sections :
       /\ (click'.section = s /\ click'.on \in {"delete", "status"}
           /\ data' # data) => click = click'
       /\ ArmedOnlyBy(click, s)']_vars

\* C24: the edit flow of a row is Viewing -> Editing -> (Saved | Cancelled)
\* -> Viewing: starting an edit clears any pending confirmation, cancel
\* returns to Viewing with DashboardData unchanged, save with valid input
\* commits the new label and amount and returns to Viewing, and save with
\* invalid input stays in Editing with DashboardData unchanged.
C24_EditFlow ==
  [][click'.on # "none" =>
       LET s == click'.section
           c == cards[s]
           c2 == cards'[s]
           malformed == Malformed(c.editLabel, c.editAmount)
           saved == updateEntry(data, c.editingId, Trim(c.editLabel),
                                parseFloat(c.editAmount).value)
       IN /\ (c2.editingId # c.editingId /\ c2.editingId # NULL) =>
               /\ click'.on = "edit"
               /\ c2.confirmingDeleteId = NULL
               /\ c2.confirmingStatusId = NULL
               /\ data' = data
          /\ (c.editingId # NULL /\ c2.editingId = NULL) =>
               IF click'.on = "save"
               THEN ~malformed /\ data' = saved
               ELSE click'.on = "cancelEdit" /\ data' = data
          /\ (click'.on = "save" /\ malformed) =>
               data' = data /\ c2.editingId = c.editingId
          /\ (click'.on = "save" /\ click' # click /\ ~malformed) =>
               data' = saved /\ c2.editingId = NULL]_vars

C24_Witness ==
  /\ click = [on |-> "save", section |-> "utilities", id |-> "g"]
  /\ cards.utilities.editingId = NULL
  /\ cards.utilities.editLabel = " Rent "
  /\ data.utilities[1] = Plain("g", "Rent", 40)
  /\ ops > 0

\* C25: updateEntry(id, label, amount) scans every category and replaces
\* only the label and amount of the entries whose id is id: it keeps their
\* id and status, every other entry, and the order and length of every
\* category, and changes nothing when no entry has that id.
C25_UpdateEntryFrame ==
  [][\A id \in CallIds, l \in Labels, a \in StatsAmounts :
       data' = updateEntry(data, id, l, a) =>
         /\ DOMAIN data' = DOMAIN data
         /\ \A s \in DOMAIN data :
              /\ Len(data'[s]) = Len(data[s])
              /\ \A k \in 1..Len(data[s]) :
                   LET e == data[s][k]
                       e2 == data'[s][k]
                   IN IF e.id = id
                      THEN /\ DOMAIN e2 = DOMAIN e
                           /\ e2.id = id /\ e2.label = l /\ e2.amount = a
                           /\ "status" \in DOMAIN e => e2.status = e.status
                      ELSE e2 = e
         /\ (\A s \in DOMAIN data : \A k \in 1..Len(data[s]) :
               data[s][k].id # id) => data' = data]_vars

C25_Witness ==
  /\ ops > 0
  /\ data.loans = << Entry("7", "Test", 100, UNPAID) >>
  /\ \A s \in Sections \ {"loans"} : data[s] = DEFAULT_DATA[s]

\* C26: deleteEntry(section, id) and updateStatus(section, id, status)
\* affect only the named section: deleteEntry removes exactly the entries of
\* that section with that id and keeps the rest in order, updateStatus
\* changes only the status field of the matching entry, and both leave the
\* nine other categories unchanged.
C26_SectionFrame ==
  [][\A s \in Sections, id \in CallIds :
       /\ data' = deleteEntry(data, s, id) =>
            /\ \A t \in Sections \ {s} : data'[t] = data[t]
            /\ data'[s] = SelectSeq(data[s], LAMBDA e : e.id # id)
       /\ \A status \in Statuses :
            data' = updateStatus(data, s, id, status) =>
              /\ \A t \in Sections \ {s} : data'[t] = data[t]
              /\ Len(data'[s]) = Len(data[s])
              /\ \A k \in 1..Len(data[s]) :
                   LET e == data[s][k]
                       e2 == data'[s][k]
                   IN IF e.id = id
                      THEN /\ DOMAIN e2 = DOMAIN e \cup {"status"}
                           /\ e2.id = e.id /\ e2.label = e.label
                           /\ e2.amount = e.amount /\ e2.status = status
                      ELSE e2 = e]_vars

C26_Witness ==
  /\ ops > 0
  /\ data.utilities = << Entry("12", "Maynilad", 800, UNPAID) >>
  /\ \A s \in Sections \ {"utilities"} : data[s] = DEFAULT_DATA[s]

PendingIds(entries) ==
  {entries[k].id : k \in {j \in 1..Len(entries) : HasStatus(entries[j], PENDING)}}

\* C27: a confirmed status change maps Paid to Unpaid and every other
\* status (Unpaid, Pending, unset) to Paid; hence no operation sets a status
\* to Pending, an entry that leaves Pending never returns to it, and two
\* consecutive confirmed changes on a Paid or Unpaid entry restore its
\* status.
C27_StatusToggle ==
  [][/\ \A s \in Sections : PendingIds(data'[s]) \subseteq PendingIds(data[s])
     /\ \A s \in Sections : \A k \in 1..Len(data[s]) :
          LET e == data[s][k]
          IN \A status \in Statuses :
               (data' = updateStatus(data, s, e.id, status) /\ data' # data) =>
                 /\ status = IF HasStatus(e, PAID) THEN UNPAID ELSE PAID
                 /\ (HasStatus(e, PAID) \/ HasStatus(e, UNPAID)) =>
                      updateStatus(data', s, e.id, NextStatus(data'[s][k]))
                        = data]_vars

C27_Witness ==
  /\ ops > 0
  /\ data.loans = << Entry("e", "Car", 900, UNPAID) >>
  /\ data.utilities = MixedData.utilities

\* C28: in every reachable state of a FinancialCard at most one confirmation
\* is pending (confirmingDeleteId and confirmingStatusId are never both
\* non-null), and the row being edited is never the row whose delete or
\* status confirmation is pending.
C28_OneConfirmation ==
  \A s \in Sections :
    /\ cards[s].confirmingDeleteId = NULL \/ cards[s].confirmingStatusId = NULL
    /\ cards[s].editingId # NULL =>
         /\ cards[s].confirmingDeleteId # cards[s].editingId
         /\ cards[s].confirmingStatusId # cards[s].editingId

C28_Witness ==
  /\ cards.utilities.editingId = "g"
  /\ cards.utilities.confirmingStatusId = "h"
  /\ cards.utilities.confirmingDeleteId = NULL
  /\ click = [on |-> "status", section |-> "utilities", id |-> "h"]

\* C29: every invocation of fetchInsights whose awaited promises settle
\* sets isLoadingInsight back to false in the end, on success and on every
\* failure path, and an invocation writes only the display string of its
\* own view.
C29_LoadingEndsOwnView ==
  /\ [](last.pc = "done" => ~isLoadingInsight)
  /\ (requests # <<>>) ~> (requests = <<>>)
  /\ [][(requests' # requests \/ issued' # issued) =>
          /\ (last'.pc # "done" \/ last'.view = "overview") =>
               predictionInsight' = predictionInsight
          /\ (last'.pc # "done" \/ last'.view = "prediction") =>
               overviewInsight' = overviewInsight]_vars

C29_Witness ==
  /\ last.pc = "done"
  /\ last.view = "prediction"
  /\ last.escaped
  /\ ~isLoadingInsight
  /\ requests = <<>>
  /\ overviewInsight # <<>>
  /\ predictionInsight = <<>>

\* C30: the mount, a tab switch or a mutation of the data issues an insight
\* request only for the view of the tab that is then active, and only when
\* that view's display string is empty at that time; for a view whose
\* display string is non-empty only the refresh button issues a request.
C30_AutomaticOnlyWhenEmpty ==
  [][issued' # issued =>
       LET view == IF Len(requests') > Len(requests)
                   THEN requests'[Len(requests')].view ELSE last'.view
           automatic == phase' # phase \/ activeTab' # activeTab \/ ops' # ops
       IN /\ view = IF activeTab' = "prediction" THEN "prediction"
                    ELSE "overview"
          /\ automatic => /\ activeTab' \in {"overview", "prediction"}
                          /\ Insight(view) = <<>>]_vars

\* A refresh has issued a second request for the overview, whose text is
\* on display.
C30_Witness ==
  /\ activeTab = "overview"
  /\ ops = 0
  /\ issued = 2
  /\ overviewInsight # <<>>
  /\ isLoadingInsight
  /\ Len(requests) = 1
  /\ requests[1].view = "overview"

====
